---- MODULE Spec2Model ----
(***************************************************************************)
(* Model of the shop business logic of foobar-api (src/src/shop/api.py):   *)
(* the product-transaction ledger, the supplier catalogue cache, delivery  *)
(* processing, ordering, the out-of-stock forecast and stock-taking.       *)
(*                                                                         *)
(* Spec, SpecInit and SpecStock run every API call as one atomic step (a   *)
(* single caller, one call at a time): Spec the ledger and the calls that  *)
(* feed it, SpecInit the initiation of stock-takings over a categorised    *)
(* catalogue, SpecStock the assignment and finishing of chunks.  SpecRace  *)
(* and SpecConc run the stock-taking calls of several request handlers     *)
(* statement by statement under READ COMMITTED isolation, with the row     *)
(* locks taken by SELECT ... FOR UPDATE.  SpecSupply runs lookups in the   *)
(* supplier catalogue cache, SpecDelivery the delivery pipeline on top of  *)
(* it, SpecOrder orders against a catalogue of offerings and SpecForecast  *)
(* the forecast over a dated ledger.                                       *)
(***************************************************************************)
EXTENDS Integers, Sequences, FiniteSets, TLC

\* ------------------------------------------------------------------ bounds
MaxProducts == 3      \* products created under SpecStock and SpecConc
LedgerProducts == 2   \* products created under Spec
LedgerStocktakes == 1 \* stock-takings initiated under Spec
ConcProducts == 2     \* products created under SpecRace
ConcStocktakes == 1   \* stock-takings initiated under SpecConc
MaxTrx == 3
MaxStocktakes == 2
MaxDeliveries == 1
MaxDeliveryItems == 2
MaxDays == 2          \* days the clock advances under SpecForecast
ForecastProducts == 2 \* products created under SpecForecast
MaxOfferings == 3     \* supplier products in the catalogue under SpecOrder

\* ------------------------------------------------------------- input sets
Users == {"u1", "u2"}
NoUser == "nobody"
Categories == {1, 2}
NoCategory == 0
ChunkSizes == {1, 2}
TrxQtys == {2}
CountedQtys == {0, 2}
DeliveryQtys == {1}
InputTrxTypes == {"PURCHASE"}
Procs == {"p1", "p2"}
Suppliers == {1, 2}
SupplierIds == {1, 2, 3}
SKUs == {1, 2}
NoData == [price |-> 0, name |-> "", units |-> ""]
KnownData == [price |-> 5, name |-> "a", units |-> "kg"]
ProductDatas == {KnownData, [price |-> 7, name |-> "b", units |-> "l"]}
Multipliers == {1, 2}
DeliverySuppliers == {1}
AnySupplier == 0
ForecastTrxs == {[trx_type |-> "INVENTORY", qty |-> 2],
                 [trx_type |-> "CORRECTION", qty |-> 2],
                 [trx_type |-> "PURCHASE", qty |-> 0 - 1]}
Targets == {0}
OrderProducts == {1, 2}
BatchSizes == {2, 3}
UnitPrices == {1, 2}
WantedProducts == {1}
OrderQtys == {3, 5}
NoOrder == [product |-> 0, qty |-> 0, supplier |-> 0, attempts |-> <<>>]
Epoch == 736330
NoForecast == [product |-> 0, target |-> 0, current_date |-> 0,
               branch |-> "none", initial_qty |-> 0, date_offset |-> 0,
               x |-> <<>>, deltas |-> <<>>, y |-> <<>>]

NoRef == [ct |-> "none", id |-> 0]
NoRet == [op |-> "none", status |-> "ok", user |-> NoUser, arg |-> 0, val |-> 0,
          again |-> FALSE]
NoCall == 0 - 1

VARIABLES
    products,      \* Product rows: <<[category, qty]>>, the index is the id
    trxs,          \* ProductTransaction rows with their status history
    stocktakes,    \* Stocktake rows: <<[locked]>>
    chunks,        \* StocktakeChunk rows: <<[stocktake, locked, owner]>>
    items,         \* StocktakeItem rows: <<[chunk, product, qty]>>
    deliveries,    \* Delivery rows: <<[locked]>>
    deliveryItems, \* DeliveryItem rows: <<[delivery, product, qty]>>
    ret,           \* outcome of the last API call (again: the call repeats an earlier one)
    lastAssign,    \* history: what assign_free_stocktake_chunk last returned to a user
                   \* for an existing stock-taking (NoCall: no call yet, 0: None)
    pc,            \* SpecConc: the statement each request handler is at
    loc,           \* SpecConc: the handler's local variables
    rowLock,       \* SpecConc: <<chunk id, handler>> for every row lock held
    returned,      \* SpecConc history: <<chunk id, user>> for every chunk returned
    supplierProducts, \* SupplierProduct rows, the supplier catalogue cache
    fetched,       \* the SKUs the last call passed to retrieve_product, in order
    ordered,       \* the order_product calls of the last order_from_supplier
    today,         \* the calendar day, as a proleptic Gregorian ordinal
    forecast       \* what the last predict_quantity computed

db == <<products, trxs, stocktakes, chunks, items, deliveries, deliveryItems>>
conc == <<pc, loc, rowLock, returned>>
ext == <<supplierProducts, fetched, ordered, today, forecast>>
vars == <<products, trxs, stocktakes, chunks, items, deliveries, deliveryItems,
          ret, lastAssign, pc, loc, rowLock, returned,
          supplierProducts, fetched, ordered, today, forecast>>

Min(a, b) == IF a < b THEN a ELSE b

Ret(op, status, user, arg, val) ==
    [op |-> op, status |-> status, user |-> user, arg |-> arg, val |-> val,
     again |-> FALSE]

\* ------------------------------------------------------------------ ledger

\* The current status of a transaction is its latest status row.
TrxStatus(t) == t.states[Len(t.states)].status

\* Faulty variant: the transaction is created already FINALIZED.
NewTrxFinalized(product_id, trx_type, qty, reference) ==
    [product |-> product_id, trx_type |-> trx_type, qty |-> qty,
     date_created |-> today,
     states |-> <<[status |-> "FINALIZED", ref |-> reference]>>]

NewTrx(product_id, trx_type, qty, reference) ==
    [product |-> product_id, trx_type |-> trx_type, qty |-> qty,
     date_created |-> today,
     states |-> <<[status |-> "PENDING", ref |-> reference]>>]

\* Sum('qty') over the finalized transactions of product p.
RECURSIVE FinalizedQty(_, _)
FinalizedQty(ts, p) ==
    IF ts = <<>> THEN 0
    ELSE (IF Head(ts).product = p /\ TrxStatus(Head(ts)) = "FINALIZED"
          THEN Head(ts).qty ELSE 0) + FinalizedQty(Tail(ts), p)

\* ProductTransaction.set_status: one-way PENDING -> FINALIZED | CANCELED;
\* finalizing counts the delta toward the product's quantity.
CanSetStatus(t) == TrxStatus(t) = "PENDING"

WithStatus(t, status, reference) ==
    [t EXCEPT !.states = Append(@, [status |-> status, ref |-> reference])]

QtyAfterStatus(qty, t, status) ==
    IF status = "FINALIZED" THEN qty + t.qty ELSE qty

set_status(op, trx_id, status, reference) ==
    IF trx_id \notin DOMAIN trxs
    THEN /\ ret' = Ret(op, "DoesNotExist", NoUser, 0, 0)
         /\ UNCHANGED db
    ELSE IF ~CanSetStatus(trxs[trx_id])
    THEN /\ ret' = Ret(op, "APIException", NoUser, 0, 0)
         /\ UNCHANGED db
    ELSE LET t == trxs[trx_id] IN
         /\ trxs' = [trxs EXCEPT ![trx_id] = WithStatus(t, status, reference)]
         /\ products' = [products EXCEPT
                ![t.product].qty = QtyAfterStatus(@, t, status)]
         /\ ret' = Ret(op, "ok", NoUser, 0, 0)
         /\ UNCHANGED <<stocktakes, chunks, items, deliveries, deliveryItems>>

create_product ==
    /\ Len(products) < MaxProducts
    /\ products' = Append(products, [category |-> NoCategory, qty |-> 0])
    /\ ret' = Ret("create_product", "ok", NoUser, 0, 0)
    /\ UNCHANGED <<trxs, stocktakes, chunks, items, deliveries, deliveryItems>>
    /\ UNCHANGED <<lastAssign, conc>>
    /\ UNCHANGED ext

\* update_product(id, category=...): of the keyword arguments the caller may
\* pass, the category is the one the stock-taking reads.
update_product(id, category) ==
    /\ id \in DOMAIN products
    /\ products' = [products EXCEPT ![id].category = category]
    /\ ret' = Ret("update_product", "ok", NoUser, 0, 0)
    /\ UNCHANGED <<trxs, stocktakes, chunks, items, deliveries, deliveryItems>>
    /\ UNCHANGED <<lastAssign, conc>>
    /\ UNCHANGED ext

create_product_transaction(product_id, trx_type, qty, reference) ==
    /\ Len(trxs) < MaxTrx
    /\ IF product_id \notin DOMAIN products
       THEN /\ ret' = Ret("create_product_transaction", "DoesNotExist",
                          NoUser, 0, 0)
            /\ UNCHANGED db
       ELSE /\ trxs' = Append(trxs, NewTrx(product_id, trx_type, qty, reference))
            /\ ret' = Ret("create_product_transaction", "ok", NoUser, 0, 0)
            /\ UNCHANGED <<products, stocktakes, chunks, items,
                           deliveries, deliveryItems>>
    /\ UNCHANGED <<lastAssign, conc>>
    /\ UNCHANGED ext

finalize_product_transaction(trx_id) ==
    /\ set_status("finalize_product_transaction", trx_id, "FINALIZED", NoRef)
    /\ UNCHANGED <<lastAssign, conc>>
    /\ UNCHANGED ext

cancel_product_transaction(trx_id) ==
    /\ set_status("cancel_product_transaction", trx_id, "CANCELED", NoRef)
    /\ UNCHANGED <<lastAssign, conc>>
    /\ UNCHANGED ext

\* --------------------------------------------------------------- forecast

\* ProductTransaction.objects.finalized(): the finalized transactions of the
\* ledger ts, of whatever product.
Finalized(ts) == {t \in DOMAIN ts : TrxStatus(ts[t]) = "FINALIZED"}

\* qs.restocks(): the finalized transactions of the restock type.
Restocks(ts) == {t \in Finalized(ts) : ts[t].trx_type = "INVENTORY"}

\* qs.restocks().order_by('-date_created').first(): transactions are stamped
\* as they are created, so the latest is the one created last.
LastRestock(ts) == CHOOSE r \in Restocks(ts) : \A t \in Restocks(ts) : t <= r

\* Sum('qty') over the transactions ids of ts.
RECURSIVE SumQty(_, _)
SumQty(ts, ids) ==
    IF ids = {} THEN 0
    ELSE LET t == CHOOSE u \in ids : TRUE IN ts[t].qty + SumQty(ts, ids \ {t})

\* qs.filter(date_created__gt=restock_trx.date_created)
AfterRestock(ts) == {t \in Finalized(ts) : t > LastRestock(ts)}

\* .annotate(date=TruncDay('date_created')).values('date')
\* .annotate(aggregated_qty=Sum('qty')): a row per calendar day, by date.
RECURSIVE DailyRows(_, _)
DailyRows(ts, ids) ==
    IF ids = {} THEN <<>>
    ELSE LET first == CHOOSE d \in {ts[t].date_created : t \in ids} :
                         \A t \in ids : d <= ts[t].date_created
             ofDay == {t \in ids : ts[t].date_created = first}
         IN <<[date |-> first, aggregated_qty |-> SumQty(ts, ofDay)]>>
               \o DailyRows(ts, ids \ ofDay)

\* list(accumulate(y))
RECURSIVE accumulate(_)
accumulate(y) ==
    IF Len(y) <= 1 THEN y
    ELSE LET front == accumulate(SubSeq(y, 1, Len(y) - 1))
         IN Append(front, front[Len(front)] + y[Len(y)])

Elements(seq) == {seq[i] : i \in DOMAIN seq}

\* Faulty variant: a product at the target still gets a forecast.
BelowTarget(qty, target) == qty < target

\* if product_obj.qty <= target
AtTarget(qty, target) == qty <= target

\* predict_quantity up to the fit, over the ledger ts for a product whose
\* quantity is qty: the branch taken and the data series handed to the
\* regression.  What is returned after the fit is a function of x, y,
\* initial_qty and date_offset.
Predict(ts, product_id, qty, target, current_date) ==
    LET None(branch) ==
            [NoForecast EXCEPT !.product = product_id, !.target = target,
                               !.current_date = current_date, !.branch = branch]
    IN IF AtTarget(qty, target) THEN None("at_target")
       ELSE IF Restocks(ts) = {} THEN None("never_restocked")
       ELSE LET initial_qty == SumQty(ts, {t \in Finalized(ts) : t <= LastRestock(ts)})
                trx_objs == DailyRows(ts, AfterRestock(ts))
            IN IF trx_objs = <<>> THEN None("no_data")
               ELSE LET today_ordinal == current_date
                        date_offset == trx_objs[1].date
                        x == <<0 - 1>> \o [i \in DOMAIN trx_objs |->
                                             trx_objs[i].date - date_offset]
                        y == <<initial_qty>> \o [i \in DOMAIN trx_objs |->
                                             trx_objs[i].aggregated_qty]
                        absent == today_ordinal \notin Elements(x)
                        xs == IF absent THEN Append(x, today_ordinal - date_offset)
                              ELSE x
                        ys == IF absent THEN Append(y, 0) ELSE y
                    IN [product |-> product_id, target |-> target,
                        current_date |-> current_date, branch |-> "fitted",
                        initial_qty |-> initial_qty, date_offset |-> date_offset,
                        x |-> xs, deltas |-> ys, y |-> accumulate(ys)]

predict_quantity(product_id, target, current_date) ==
    /\ IF product_id \notin DOMAIN products
       THEN /\ ret' = Ret("predict_quantity", "DoesNotExist", NoUser, product_id, 0)
            /\ forecast' = [NoForecast EXCEPT !.product = product_id,
                               !.target = target, !.current_date = current_date]
       ELSE /\ forecast' = Predict(trxs, product_id, products[product_id].qty,
                                   target, current_date)
            /\ ret' = Ret("predict_quantity", "ok", NoUser, product_id, 0)
    /\ UNCHANGED <<db, lastAssign, conc>>
    /\ UNCHANGED <<supplierProducts, fetched, ordered, today>>

\* A day passes.
tick ==
    /\ today < Epoch + MaxDays
    /\ today' = today + 1
    /\ ret' = Ret("tick", "ok", NoUser, 0, 0)
    /\ UNCHANGED <<db, lastAssign, conc>>
    /\ UNCHANGED <<supplierProducts, fetched, ordered, forecast>>

\* ------------------------------------------------- supplier catalogue cache

NoLookup == [supplier |-> 0, sku |-> 0, refresh |-> FALSE, calls |-> <<>>,
             answer |-> NoData]

\* SupplierProduct.objects.get(supplier_id=..., sku=...) matches these rows.
CachedRows(sps, supplier_id, sku) ==
    {i \in DOMAIN sps : sps[i].supplier = supplier_id /\ sps[i].sku = sku}

\* The row update_or_create creates: the given key and defaults, every other
\* field at the default of the model (associated with no product).
NewSupplierProduct(supplier_id, sku, product_data) ==
    [supplier |-> supplier_id, sku |-> sku, product |-> 0,
     price |-> product_data.price, name |-> product_data.name,
     units |-> product_data.units,
     qty |-> 1, unit_price |-> product_data.price, qty_multiplier |-> 1]

\* The row update_or_create updates: the defaults overwrite price, name, units.
RefreshedSupplierProduct(row, product_data) ==
    [row EXCEPT !.price = product_data.price, !.name = product_data.name,
                !.units = product_data.units]

\* Faulty variant: the cache is consulted also when a refresh is asked for.
CacheIgnoringRefresh(refresh, cached) == cached # {}

\* if not refresh: try: return SupplierProduct.objects.get(...)
ServedFromCache(refresh, cached) == ~refresh /\ cached # {}

\* get_supplier_product against the cache sps, product_data being what the
\* supplier's retrieve_product answers (NoData: None) if it is asked.
\* Returns the outcome, the cache afterwards, the id of the row returned
\* (0: None) and the SKUs passed to retrieve_product.
GetSupplierProduct(sps, supplier_id, sku, refresh, product_data) ==
    LET cached == CachedRows(sps, supplier_id, sku)
        Out(status, rows, val, calls) ==
            [status |-> status, rows |-> rows, val |-> val, calls |-> calls]
    IN IF ServedFromCache(refresh, cached)
       THEN (IF Cardinality(cached) = 1
             THEN Out("ok", sps, CHOOSE i \in cached : TRUE, <<>>)
             ELSE Out("MultipleObjectsReturned", sps, 0, <<>>))
       ELSE IF supplier_id \notin Suppliers
       THEN Out("DoesNotExist", sps, 0, <<>>)
       ELSE IF product_data = NoData
       THEN Out("ok", sps, 0, <<sku>>)
       ELSE IF cached = {}
       THEN Out("ok", Append(sps, NewSupplierProduct(supplier_id, sku, product_data)),
                Len(sps) + 1, <<sku>>)
       ELSE IF Cardinality(cached) = 1
       THEN LET i == CHOOSE j \in cached : TRUE IN
            Out("ok", [sps EXCEPT ![i] = RefreshedSupplierProduct(@, product_data)],
                i, <<sku>>)
       ELSE Out("MultipleObjectsReturned", sps, 0, <<sku>>)

get_supplier_product(supplier_id, sku, refresh, product_data) ==
    /\ LET out == GetSupplierProduct(supplierProducts, supplier_id, sku,
                                     refresh, product_data)
       IN /\ supplierProducts' = out.rows
          /\ fetched' = [supplier |-> supplier_id, sku |-> sku,
                         refresh |-> refresh, calls |-> out.calls,
                         answer |-> IF out.calls = <<>> THEN NoData
                                    ELSE product_data]
          /\ ret' = Ret("get_supplier_product", out.status, NoUser,
                        supplier_id, out.val)
    /\ UNCHANGED <<db, lastAssign, conc>>
    /\ UNCHANGED <<ordered, today, forecast>>

\* The shop's staff associate a supplier product with a product of the
\* catalogue and set its unit multiplier.
associate_supplier_product(sp, product_id, multiplier) ==
    /\ sp \in DOMAIN supplierProducts
    /\ product_id \in DOMAIN products
    /\ supplierProducts[sp].product # product_id
          \/ supplierProducts[sp].qty_multiplier # multiplier
    /\ supplierProducts' = [supplierProducts EXCEPT
           ![sp].product = product_id, ![sp].qty_multiplier = multiplier]
    /\ ret' = Ret("associate_supplier_product", "ok", NoUser, sp, 0)
    /\ UNCHANGED <<db, lastAssign, conc>>
    /\ UNCHANGED <<fetched, ordered, today, forecast>>

\* --------------------------------------------------------------- ordering

\* models.SupplierProduct.objects.filter(product_id=product_id), narrowed to
\* the supplier when one is given.
Candidates(product_id, supplier_id) ==
    {i \in DOMAIN supplierProducts :
        /\ supplierProducts[i].product = product_id
        /\ supplier_id # AnySupplier => supplierProducts[i].supplier = supplier_id}

\* math.ceil(a / b) for positive integers.
Ceil(a, b) == (a + b - 1) \div b

\* def minimum_qty(sp): return math.ceil(qty / sp.qty)
minimum_qty(sp, qty) == Ceil(qty, supplierProducts[sp].qty)

\* Faulty variant: the price of one unit, whatever has to be bought.
unit_cost(sp, qty) == supplierProducts[sp].unit_price

\* def cost(sp): return minimum_qty(sp) * sp.qty * sp.unit_price
cost(sp, qty) ==
    minimum_qty(sp, qty) * supplierProducts[sp].qty * supplierProducts[sp].unit_price

\* sorted(products, key=cost): the candidates by ascending cost; the sort is
\* stable and the rows that tie keep the unspecified order of the query.
SortedByCost(cands, qty) ==
    LET n == Cardinality(cands) IN
    {f \in [1..n -> cands] :
        /\ \A i, j \in 1..n : i # j => f[i] # f[j]
        /\ \A i, j \in 1..n : i < j => cost(f[i], qty) <= cost(f[j], qty)}

\* The for loop: order_product for each candidate in turn until one succeeds;
\* failing are the supplier products whose order_product raises
\* SupplierAPIException.
RECURSIVE OrderLoop(_, _, _, _, _)
OrderLoop(sorted, i, qty, failing, attempts) ==
    IF i > Len(sorted) THEN attempts
    ELSE LET attempt == [sp |-> sorted[i], sku |-> supplierProducts[sorted[i]].sku,
                         qty |-> minimum_qty(sorted[i], qty),
                         ok |-> sorted[i] \notin failing]
         IN IF attempt.ok THEN Append(attempts, attempt)
            ELSE OrderLoop(sorted, i + 1, qty, failing, Append(attempts, attempt))

\* Not atomic, but it writes nothing to the database: its effects are the
\* order_product calls.  With no candidate at all the else branch of the loop
\* reads the loop variable product, which was never bound.
order_from_supplier(product_id, qty, supplier_id, failing) ==
    /\ \E sorted \in SortedByCost(Candidates(product_id, supplier_id), qty) :
         LET attempts == OrderLoop(sorted, 1, qty, failing, <<>>)
             n == Len(attempts)
         IN /\ ordered' = [product |-> product_id, qty |-> qty,
                           supplier |-> supplier_id, attempts |-> attempts]
            /\ ret' = IF n > 0 /\ attempts[n].ok
                      THEN Ret("order_from_supplier", "ok", NoUser, product_id,
                               attempts[n].sp)
                      ELSE IF n > 0
                      THEN Ret("order_from_supplier", "APIException", NoUser,
                               product_id, attempts[n].sku)
                      ELSE Ret("order_from_supplier", "UnboundLocalError", NoUser,
                               product_id, 0)
    /\ UNCHANGED <<db, lastAssign, conc>>
    /\ UNCHANGED <<supplierProducts, fetched, today, forecast>>

\* A supplier product of the catalogue with its SKU, batch size and unit price.
Offering(supplier_id, sku, product_id, qty, unit_price) ==
    [supplier |-> supplier_id, sku |-> sku, product |-> product_id,
     price |-> qty * unit_price, name |-> "a", units |-> "kg",
     qty |-> qty, unit_price |-> unit_price, qty_multiplier |-> 1]

\* What distinguishes the supplier products of a catalogue.
OfferingFields == [supplier : Suppliers, product : OrderProducts,
                   qty : BatchSizes, unit_price : UnitPrices]

\* A catalogue of n supplier products, the i-th with SKU i.
Catalogue(n, f) ==
    [i \in 1..n |-> Offering(f[i].supplier, i, f[i].product,
                             f[i].qty, f[i].unit_price)]

\* --------------------------------------------------------------- delivery

DeliveryItemRef(k) == [ct |-> "deliveryitem", id |-> k]

DeliveryItemsOf(d) == {k \in DOMAIN deliveryItems : deliveryItems[k].delivery = d}

\* for item in items: get_supplier_product(supplier_obj.id, item.sku), then a
\* DeliveryItem for every line whose supplier product was found.  upstream is
\* what the supplier's retrieve_product answers for each SKU during the call.
\* Returns the outcome, the cache, the delivery items and the SKUs fetched.
RECURSIVE PopulateItems(_, _, _, _, _, _, _, _)
PopulateItems(d, supplier_id, parsed, k, upstream, sps, its, calls) ==
    IF k > Len(parsed)
    THEN [status |-> "ok", rows |-> sps, items |-> its, calls |-> calls]
    ELSE LET out == GetSupplierProduct(sps, supplier_id, parsed[k].sku, FALSE,
                                       upstream[parsed[k].sku])
         IN IF out.status # "ok"
            THEN [status |-> out.status, rows |-> sps, items |-> its,
                  calls |-> calls \o out.calls]
            ELSE PopulateItems(d, supplier_id, parsed, k + 1, upstream, out.rows,
                    IF out.val = 0 THEN its
                    ELSE Append(its,
                           [delivery |-> d, supplier_product |-> out.val,
                            qty |-> parsed[k].qty * out.rows[out.val].qty_multiplier]),
                    calls \o out.calls)

\* A delivery of a supplier arrives and is populated from its parsed report.
populate_delivery(supplier_id, parsed, upstream) ==
    /\ Len(deliveries) < MaxDeliveries
    /\ LET d == Len(deliveries) + 1
           out == PopulateItems(d, supplier_id, parsed, 1, upstream,
                                supplierProducts, deliveryItems, <<>>)
       IN /\ fetched' = [supplier |-> supplier_id, sku |-> 0,
                         refresh |-> FALSE, calls |-> out.calls]
          /\ ret' = Ret("populate_delivery", out.status, NoUser, d, 0)
          /\ deliveries' = Append(deliveries,
                                  [locked |-> FALSE, supplier |-> supplier_id])
          /\ IF out.status = "ok"
             THEN /\ supplierProducts' = out.rows
                  /\ deliveryItems' = out.items
             ELSE UNCHANGED <<supplierProducts, deliveryItems>>
    /\ UNCHANGED <<products, trxs, stocktakes, chunks, items>>
    /\ UNCHANGED <<lastAssign, conc>>
    /\ UNCHANGED <<ordered, today, forecast>>

\* item.supplier_product.product: the product the item's supplier product is
\* associated with, 0 when it is associated with none.
ItemProduct(k) == supplierProducts[deliveryItems[k].supplier_product].product

\* Delivery.valid: every item is associated with a product in the system.
DeliveryValid(d) ==
    \A k \in DeliveryItemsOf(d) : ItemProduct(k) # 0

\* Faulty variant: the assertion is not made.
AlwaysValid(d) == TRUE

\* assert delivery_obj.valid
AssertedValid(d) == DeliveryValid(d)

\* Faulty variant: the transaction is created without its reference.
InventoryTrxNoRef(k) ==
    NewTrx(ItemProduct(k), "INVENTORY", deliveryItems[k].qty, NoRef)

\* The INVENTORY transaction process_delivery creates for delivery item k.
InventoryTrx(k) ==
    NewTrx(ItemProduct(k), "INVENTORY", deliveryItems[k].qty,
           DeliveryItemRef(k))

\* for item in delivery_obj.delivery_items.all(), in id order.
RECURSIVE InventoryTrxs(_, _, _)
InventoryTrxs(d, k, ts) ==
    IF k > Len(deliveryItems) THEN ts
    ELSE InventoryTrxs(d, k + 1,
            IF k \in DeliveryItemsOf(d) THEN Append(ts, InventoryTrx(k)) ELSE ts)

process_delivery(delivery_id) ==
    /\ IF delivery_id \notin DOMAIN deliveries
       THEN /\ ret' = Ret("process_delivery", "DoesNotExist", NoUser,
                          delivery_id, 0)
            /\ UNCHANGED db
       ELSE IF ~AssertedValid(delivery_id)
       THEN /\ ret' = Ret("process_delivery", "AssertionError", NoUser,
                          delivery_id, 0)
            /\ UNCHANGED db
       ELSE /\ Len(trxs) + Cardinality(DeliveryItemsOf(delivery_id)) <= MaxTrx
            /\ trxs' = InventoryTrxs(delivery_id, 1, trxs)
            /\ deliveries' = [deliveries EXCEPT ![delivery_id].locked = TRUE]
            /\ ret' = Ret("process_delivery", "ok", NoUser, delivery_id, 0)
            /\ UNCHANGED <<products, stocktakes, chunks, items, deliveryItems>>
    /\ UNCHANGED <<lastAssign, conc>>
    /\ UNCHANGED ext

\* The reports a supplier sends: up to MaxDeliveryItems lines, each naming a
\* SKU and a quantity.
ParsedReports ==
    LET Lines == [sku : SKUs, qty : DeliveryQtys]
    IN UNION {[1..n -> Lines] : n \in 0..MaxDeliveryItems}

\* What the supplier may answer for each SKU while a report is populated.
Upstreams == [SKUs -> {NoData, KnownData}]

\* ------------------------------------------------------------ stock-taking

NoRow == [stocktake |-> 0, locked |-> FALSE, owner |-> NoUser]
NoLocals == [user |-> NoUser, stocktake |-> 0, chunk |-> 0, size |-> 0,
             row |-> NoRow]

ItemRef(i) == [ct |-> "stocktakeitem", id |-> i]

\* Faulty variant: the locked stock-takings are counted instead.
LockedStocktakeCount(sts) ==
    Cardinality({s \in DOMAIN sts : sts[s].locked})

\* stocktake_qs.filter(locked=False).count()
UnlockedStocktakeCount(sts) ==
    Cardinality({s \in DOMAIN sts : ~sts[s].locked})

\* Product.objects.all().order_by('category'): any order of the product ids
\* with ascending categories; rows that tie come in an unspecified order and
\* NULL categories sort first or last depending on the database.
CategoryKey(p, nullsLast) ==
    IF products[p].category = NoCategory
    THEN (IF nullsLast THEN 1000 ELSE -1)
    ELSE products[p].category

CategoryOrders(nullsLast) ==
    LET n == Len(products) IN
    {f \in [1..n -> 1..n] :
        /\ \A i, j \in 1..n : i # j => f[i] # f[j]
        /\ \A i, j \in 1..n :
              i < j => CategoryKey(f[i], nullsLast) <= CategoryKey(f[j], nullsLast)}

\* Faulty variant: the slice takes one element too many.
SliceInclusive(seq, i, j) == SubSeq(seq, i + 1, Min(j + 1, Len(seq)))

\* Python's seq[i:j] for 0 <= i <= j.
Slice(seq, i, j) == SubSeq(seq, i + 1, Min(j, Len(seq)))

NewItems(chunk_id, chunk_products) ==
    [k \in 1..Len(chunk_products) |->
        [chunk |-> chunk_id, product |-> chunk_products[k], qty |-> 0]]

\* for i in range(0, len(product_objs), chunk_size): one chunk per i, holding
\* product_objs[i:i + chunk_size].  Returns <<chunks, items>>.
RECURSIVE DealChunks(_, _, _, _, _, _)
DealChunks(product_objs, i, chunk_size, stocktake_id, chs, its) ==
    IF i >= Len(product_objs) THEN <<chs, its>>
    ELSE DealChunks(product_objs, i + chunk_size, chunk_size, stocktake_id,
            Append(chs, [stocktake |-> stocktake_id, locked |-> FALSE,
                         owner |-> NoUser]),
            its \o NewItems(Len(chs) + 1,
                            Slice(product_objs, i, i + chunk_size)))

initiate_stocktaking(chunk_size) ==
    /\ IF ~(UnlockedStocktakeCount(stocktakes) = 0)
       THEN /\ ret' = Ret("initiate_stocktaking", "APIException", NoUser,
                          chunk_size, 0)
            /\ UNCHANGED db
       ELSE /\ Len(stocktakes) < MaxStocktakes
            /\ \E nullsLast \in BOOLEAN : \E order \in CategoryOrders(nullsLast) :
                 LET dealt == DealChunks(order, 0, chunk_size,
                                         Len(stocktakes) + 1, chunks, items)
                 IN /\ stocktakes' = Append(stocktakes, [locked |-> FALSE])
                    /\ chunks' = dealt[1]
                    /\ items' = dealt[2]
            /\ ret' = Ret("initiate_stocktaking", "ok", NoUser, chunk_size,
                          Len(stocktakes) + 1)
            /\ UNCHANGED <<products, trxs, deliveries, deliveryItems>>
    /\ UNCHANGED <<lastAssign, conc>>
    /\ UNCHANGED ext

\* The counted quantity of an item is entered while its chunk is open.
set_item_qty(i, q) ==
    /\ i \in DOMAIN items
    /\ ~chunks[items[i].chunk].locked
    /\ items[i].qty # q
    /\ items' = [items EXCEPT ![i].qty = q]
    /\ ret' = Ret("set_item_qty", "ok", NoUser, 0, 0)
    /\ UNCHANGED <<products, trxs, stocktakes, chunks, deliveries, deliveryItems>>
    /\ UNCHANGED <<lastAssign, conc>>
    /\ UNCHANGED ext

ChunksOf(s) == {c \in DOMAIN chunks : chunks[c].stocktake = s}
ItemsOfStocktake(s) == {i \in DOMAIN items : items[i].chunk \in ChunksOf(s)}

\* Faulty variant: the chunks are not checked.
ChunksNotChecked(s) == TRUE

\* all(obj.locked for obj in chunk_objs)
AllChunksLocked(s) == \A c \in ChunksOf(s) : chunks[c].locked

\* The CORRECTION transaction finalize_stocktaking creates for item i.
CorrectionTrx(i) ==
    NewTrx(items[i].product, "CORRECTION",
           items[i].qty - products[items[i].product].qty, ItemRef(i))

\* The nested loops over chunk_objs and chunk_obj.items.all(), in id order.
RECURSIVE CorrectionTrxs(_, _, _)
CorrectionTrxs(s, i, ts) ==
    IF i > Len(items) THEN ts
    ELSE CorrectionTrxs(s, i + 1,
            IF i \in ItemsOfStocktake(s) THEN Append(ts, CorrectionTrx(i)) ELSE ts)

finalize_stocktaking(stocktake_id) ==
    /\ IF stocktake_id \notin DOMAIN stocktakes
       THEN /\ ret' = Ret("finalize_stocktaking", "DoesNotExist", NoUser,
                          stocktake_id, 0)
            /\ UNCHANGED db
       ELSE IF stocktakes[stocktake_id].locked \/ ~AllChunksLocked(stocktake_id)
       THEN /\ ret' = Ret("finalize_stocktaking", "APIException", NoUser,
                          stocktake_id, 0)
            /\ UNCHANGED db
       ELSE /\ Len(trxs) + Cardinality(ItemsOfStocktake(stocktake_id)) <= MaxTrx
            /\ trxs' = CorrectionTrxs(stocktake_id, 1, trxs)
            /\ stocktakes' = [stocktakes EXCEPT ![stocktake_id].locked = TRUE]
            /\ ret' = Ret("finalize_stocktaking", "ok", NoUser, stocktake_id, 0)
            /\ UNCHANGED <<products, chunks, items, deliveries, deliveryItems>>
    /\ UNCHANGED <<lastAssign, conc>>
    /\ UNCHANGED ext

\* Faulty variant: the owner is not cleared.
LockedKeepingOwner(row) == [row EXCEPT !.locked = TRUE]

\* chunk_obj.locked = True; chunk_obj.owner = None
FinalizedChunk(row) == [row EXCEPT !.locked = TRUE, !.owner = NoUser]

finalize_stocktake_chunk(chunk_id) ==
    /\ IF chunk_id \notin DOMAIN chunks
       THEN /\ ret' = Ret("finalize_stocktake_chunk", "DoesNotExist", NoUser,
                          chunk_id, 0)
            /\ UNCHANGED <<db, lastAssign>>
       ELSE IF chunks[chunk_id].locked
       THEN /\ ret' = Ret("finalize_stocktake_chunk", "APIException", NoUser,
                          chunk_id, 0)
            /\ UNCHANGED <<db, lastAssign>>
       ELSE /\ chunks' = [chunks EXCEPT ![chunk_id] = FinalizedChunk(@)]
            /\ ret' = Ret("finalize_stocktake_chunk", "ok", NoUser, chunk_id, 0)
            /\ lastAssign' = [u \in Users |-> [s \in 1..MaxStocktakes |->
                   IF lastAssign[u][s] = chunk_id THEN NoCall
                   ELSE lastAssign[u][s]]]
            /\ UNCHANGED <<products, trxs, stocktakes, items,
                           deliveries, deliveryItems>>
    /\ UNCHANGED conc
    /\ UNCHANGED ext

\* Faulty variant: the chunk the user already owns is not looked up.
NoOwnedLookup(user_id, stocktake_id) == {}

\* chunk_qs.get(stocktake_id=stocktake_id, owner_id=user_id) matches these.
OwnedChunks(user_id, stocktake_id) ==
    {c \in DOMAIN chunks :
        chunks[c].stocktake = stocktake_id /\ chunks[c].owner = user_id}

\* chunk_qs.filter(stocktake_id=stocktake_id, locked=False, owner__isnull=True)
FreeChunks(stocktake_id) ==
    {c \in DOMAIN chunks :
        /\ chunks[c].stocktake = stocktake_id
        /\ ~chunks[c].locked
        /\ chunks[c].owner = NoUser}

\* chunk_obj.owner_id = user_id; chunk_obj.save() writes the whole row read.
OwnedRow(row, user_id) == [row EXCEPT !.owner = user_id]

assign_free_stocktake_chunk(user_id, stocktake_id) ==
    /\ LET owned == OwnedChunks(user_id, stocktake_id)
           free == FreeChunks(stocktake_id)
           Result(status, val) ==
               [Ret("assign_free_stocktake_chunk", status, user_id,
                    stocktake_id, val)
                EXCEPT !.again = lastAssign[user_id][stocktake_id] # NoCall]
       IN IF Cardinality(owned) = 1
          THEN /\ ret' = Result("ok", CHOOSE c \in owned : TRUE)
               /\ UNCHANGED db
          ELSE IF Cardinality(owned) > 1
          THEN /\ ret' = Result("MultipleObjectsReturned", 0)
               /\ UNCHANGED db
          ELSE IF free = {}
          THEN /\ ret' = Result("ok", 0)
               /\ UNCHANGED db
          ELSE \E c \in free :
               /\ chunks' = [chunks EXCEPT ![c] = OwnedRow(@, user_id)]
               /\ ret' = Result("ok", c)
               /\ UNCHANGED <<products, trxs, stocktakes, items,
                              deliveries, deliveryItems>>
    /\ lastAssign' = [lastAssign EXCEPT ![user_id][stocktake_id] =
           IF ret'.status = "ok" /\ stocktake_id \in DOMAIN stocktakes
           THEN ret'.val ELSE @]
    /\ UNCHANGED conc
    /\ UNCHANGED ext

\* ------------------------------------------- concurrent request handlers
\* Each handler runs one call at a time, statement by statement (ret records
\* the outcome of atomic calls only).  A handler's
\* writes are applied at its commit; SELECT ... FOR UPDATE waits for row locks
\* of other handlers, then locks the rows it returns until the commit.

SetPc(p, label) == [pc EXCEPT ![p] = label]

\* Faulty variant: the queries take no row locks.
NoRowLocks(p, c) == FALSE

\* chunk_qs = StocktakeChunk.objects.select_for_update(): a statement over
\* row c waits while another handler holds c's row lock.
LockedByOther(p, c) == \E q \in Procs \ {p} : <<c, q>> \in rowLock

Unlock(p) == {l \in rowLock : l[2] # p}

initiate_check(p, chunk_size) ==
    /\ pc[p] = "idle"
    /\ IF ~(UnlockedStocktakeCount(stocktakes) = 0)
       THEN /\ UNCHANGED ret
            /\ UNCHANGED <<pc, loc>>
       ELSE /\ Len(stocktakes) < MaxStocktakes
            /\ pc' = SetPc(p, "initiate_create")
            /\ loc' = [loc EXCEPT ![p] = [NoLocals EXCEPT !.size = chunk_size]]
            /\ UNCHANGED ret
    /\ UNCHANGED <<db, lastAssign, rowLock, returned>>
    /\ UNCHANGED ext

initiate_create(p) ==
    /\ pc[p] = "initiate_create"
    /\ Len(stocktakes) < MaxStocktakes
    /\ \E nullsLast \in BOOLEAN : \E order \in CategoryOrders(nullsLast) :
         LET dealt == DealChunks(order, 0, loc[p].size,
                                 Len(stocktakes) + 1, chunks, items)
         IN /\ stocktakes' = Append(stocktakes, [locked |-> FALSE])
            /\ chunks' = dealt[1]
            /\ items' = dealt[2]
    /\ UNCHANGED ret
    /\ pc' = SetPc(p, "idle")
    /\ loc' = [loc EXCEPT ![p] = NoLocals]
    /\ UNCHANGED <<products, trxs, deliveries, deliveryItems>>
    /\ UNCHANGED <<lastAssign, rowLock, returned>>
    /\ UNCHANGED ext

assign_get(p, user_id, stocktake_id) ==
    /\ pc[p] = "idle"
    /\ LET owned == OwnedChunks(user_id, stocktake_id) IN
       /\ \A c \in owned : ~LockedByOther(p, c)
       /\ IF Cardinality(owned) = 1
          THEN /\ UNCHANGED ret
               /\ returned' = returned \cup {<<c, user_id>> : c \in owned}
               /\ UNCHANGED <<pc, loc>>
          ELSE IF Cardinality(owned) > 1
          THEN /\ UNCHANGED ret
               /\ UNCHANGED <<pc, loc, returned>>
          ELSE /\ pc' = SetPc(p, "assign_filter")
               /\ loc' = [loc EXCEPT ![p] = [NoLocals EXCEPT
                              !.user = user_id, !.stocktake = stocktake_id]]
               /\ UNCHANGED <<ret, returned>>
    /\ UNCHANGED <<db, lastAssign, rowLock>>
    /\ UNCHANGED ext

assign_filter(p) ==
    /\ pc[p] = "assign_filter"
    /\ LET free == FreeChunks(loc[p].stocktake) IN
       /\ \A c \in free : ~LockedByOther(p, c)
       /\ IF free = {}
          THEN /\ UNCHANGED ret
               /\ pc' = SetPc(p, "idle")
               /\ loc' = [loc EXCEPT ![p] = NoLocals]
               /\ UNCHANGED rowLock
          ELSE /\ rowLock' = rowLock \cup {<<c, p>> : c \in free}
               /\ pc' = SetPc(p, "assign_first")
               /\ UNCHANGED <<ret, loc>>
    /\ UNCHANGED <<db, lastAssign, returned>>
    /\ UNCHANGED ext

assign_first(p) ==
    /\ pc[p] = "assign_first"
    /\ LET free == FreeChunks(loc[p].stocktake) IN
       /\ \A c \in free : ~LockedByOther(p, c)
       /\ IF free = {}
          THEN /\ UNCHANGED ret
               /\ pc' = SetPc(p, "idle")
               /\ loc' = [loc EXCEPT ![p] = NoLocals]
               /\ rowLock' = Unlock(p)
          ELSE /\ \E c \in free :
                    loc' = [loc EXCEPT ![p].chunk = c, ![p].row = chunks[c]]
               /\ rowLock' = rowLock \cup {<<c, p>> : c \in free}
               /\ pc' = SetPc(p, "assign_save")
               /\ UNCHANGED ret
    /\ UNCHANGED <<db, lastAssign, returned>>
    /\ UNCHANGED ext

assign_save(p) ==
    /\ pc[p] = "assign_save"
    /\ ~LockedByOther(p, loc[p].chunk)
    /\ chunks' = [chunks EXCEPT ![loc[p].chunk] = OwnedRow(loc[p].row, loc[p].user)]
    /\ UNCHANGED ret
    /\ returned' = returned \cup {<<loc[p].chunk, loc[p].user>>}
    /\ rowLock' = Unlock(p)
    /\ pc' = SetPc(p, "idle")
    /\ loc' = [loc EXCEPT ![p] = NoLocals]
    /\ UNCHANGED <<products, trxs, stocktakes, items, deliveries, deliveryItems>>
    /\ UNCHANGED lastAssign
    /\ UNCHANGED ext

finalize_chunk_get(p, chunk_id) ==
    /\ pc[p] = "idle"
    /\ IF chunk_id \notin DOMAIN chunks
       THEN /\ UNCHANGED ret
            /\ UNCHANGED <<pc, loc>>
       ELSE IF chunks[chunk_id].locked
       THEN /\ UNCHANGED ret
            /\ UNCHANGED <<pc, loc>>
       ELSE /\ pc' = SetPc(p, "finalize_chunk_save")
            /\ loc' = [loc EXCEPT ![p] = [NoLocals EXCEPT
                           !.chunk = chunk_id, !.row = chunks[chunk_id]]]
            /\ UNCHANGED ret
    /\ UNCHANGED <<db, lastAssign, rowLock, returned>>
    /\ UNCHANGED ext

finalize_chunk_save(p) ==
    /\ pc[p] = "finalize_chunk_save"
    /\ ~LockedByOther(p, loc[p].chunk)
    /\ chunks' = [chunks EXCEPT ![loc[p].chunk] = FinalizedChunk(loc[p].row)]
    /\ UNCHANGED ret
    /\ pc' = SetPc(p, "idle")
    /\ loc' = [loc EXCEPT ![p] = NoLocals]
    /\ UNCHANGED <<products, trxs, stocktakes, items, deliveries, deliveryItems>>
    /\ UNCHANGED <<lastAssign, rowLock, returned>>
    /\ UNCHANGED ext

Init ==
    /\ products = <<>>
    /\ trxs = <<>>
    /\ stocktakes = <<>>
    /\ chunks = <<>>
    /\ items = <<>>
    /\ deliveries = <<>>
    /\ deliveryItems = <<>>
    /\ ret = NoRet
    /\ lastAssign = [u \in Users |-> [s \in 1..MaxStocktakes |-> NoCall]]
    /\ pc = [p \in Procs |-> "idle"]
    /\ loc = [p \in Procs |-> NoLocals]
    /\ rowLock = {}
    /\ returned = {}
    /\ supplierProducts = <<>>
    /\ fetched = NoLookup
    /\ ordered = NoOrder
    /\ today = Epoch
    /\ forecast = NoForecast

\* Spec: the ledger with the calls that feed it, each call one atomic step.
Next ==
    \/ Len(products) < LedgerProducts /\ create_product
    \/ \E p \in 1..LedgerProducts, ty \in InputTrxTypes, q \in TrxQtys :
          create_product_transaction(p, ty, q, NoRef)
    \/ \E t \in 1..MaxTrx : finalize_product_transaction(t)
    \/ \E t \in 1..MaxTrx : cancel_product_transaction(t)
    \/ Len(stocktakes) < LedgerStocktakes /\
          \E cs \in ChunkSizes : initiate_stocktaking(cs)
    \/ \E i \in DOMAIN items, q \in CountedQtys : set_item_qty(i, q)
    \/ \E c \in DOMAIN chunks : finalize_stocktake_chunk(c)
    \/ \E s \in 1..MaxStocktakes : finalize_stocktaking(s)

Spec == Init /\ [][Next]_vars

\* SpecDelivery: deliveries of a supplier populated from their reports and
\* processed into the ledger.
NextDelivery ==
    \/ Len(products) < LedgerProducts /\ create_product
    \/ \E sp \in DOMAIN supplierProducts, p \in DOMAIN products, m \in Multipliers :
          associate_supplier_product(sp, p, m)
    \/ \E s \in DeliverySuppliers, sku \in SKUs :
          get_supplier_product(s, sku, FALSE, KnownData)
    \/ \E s \in DeliverySuppliers, parsed \in ParsedReports, upstream \in Upstreams :
          populate_delivery(s, parsed, upstream)
    \/ \E d \in 1..(Len(deliveries) + 1) : process_delivery(d)
    \/ \E p \in DOMAIN products, ty \in InputTrxTypes, q \in TrxQtys :
          create_product_transaction(p, ty, q, NoRef)

SpecDelivery == Init /\ [][NextDelivery]_vars

\* SpecSupply: lookups in the supplier catalogue cache, the supplier
\* answering a fetch with the product's data or with None.
NextSupply ==
    \E s \in SupplierIds, sku \in SKUs, refresh \in BOOLEAN,
       product_data \in ProductDatas \cup {NoData} :
          get_supplier_product(s, sku, refresh, product_data)

SpecSupply == Init /\ [][NextSupply]_vars

\* SpecForecast: a dated ledger and forecasts over it.
NextForecast ==
    \/ Len(products) < ForecastProducts /\ create_product
    \/ \E p \in DOMAIN products, k \in ForecastTrxs :
          create_product_transaction(p, k.trx_type, k.qty, NoRef)
    \/ \E t \in DOMAIN trxs : finalize_product_transaction(t)
    \/ tick
    \/ \E p \in 1..ForecastProducts, target \in Targets :
          predict_quantity(p, target, today)

SpecForecast == Init /\ [][NextForecast]_vars

\* SpecOrder: orders placed against a catalogue of supplier products, any of
\* which the supplier may refuse.
InitOrder ==
    /\ products = [p \in OrderProducts |-> [category |-> NoCategory, qty |-> 0]]
    /\ \E n \in 0..MaxOfferings : \E f \in [1..n -> OfferingFields] :
          supplierProducts = Catalogue(n, f)
    /\ trxs = <<>>
    /\ stocktakes = <<>>
    /\ chunks = <<>>
    /\ items = <<>>
    /\ deliveries = <<>>
    /\ deliveryItems = <<>>
    /\ ret = NoRet
    /\ lastAssign = [u \in Users |-> [s \in 1..MaxStocktakes |-> NoCall]]
    /\ pc = [p \in Procs |-> "idle"]
    /\ loc = [p \in Procs |-> NoLocals]
    /\ rowLock = {}
    /\ returned = {}
    /\ fetched = NoLookup
    /\ ordered = NoOrder
    /\ today = Epoch
    /\ forecast = NoForecast

NextOrder ==
    \E p \in WantedProducts, q \in OrderQtys, s \in Suppliers \cup {AnySupplier},
       failing \in SUBSET DOMAIN supplierProducts :
          order_from_supplier(p, q, s, failing)

SpecOrder == InitOrder /\ [][NextOrder]_vars

\* SpecInit: initiating stock-takings over a categorised catalogue.
NextInit ==
    \/ create_product
    \/ \E id \in 1..MaxProducts, c \in Categories : update_product(id, c)
    \/ \E cs \in ChunkSizes : initiate_stocktaking(cs)
    \/ \E c \in DOMAIN chunks : finalize_stocktake_chunk(c)
    \/ \E s \in 1..MaxStocktakes : finalize_stocktaking(s)

SpecInit == Init /\ [][NextInit]_vars

\* SpecStock: assigning and finishing chunks, each call one atomic step.
NextStock ==
    \/ create_product
    \/ \E cs \in ChunkSizes : initiate_stocktaking(cs)
    \/ \E u \in Users, s \in 1..MaxStocktakes : assign_free_stocktake_chunk(u, s)
    \/ \E c \in 1..(Len(chunks) + 1) : finalize_stocktake_chunk(c)
    \/ \E s \in 1..MaxStocktakes : finalize_stocktaking(s)

SpecStock == Init /\ [][NextStock]_vars

\* SpecRace: concurrent request handlers initiating stock-takings.
NextRace ==
    \/ Len(products) < ConcProducts /\ create_product
    \/ \E p \in Procs, cs \in ChunkSizes : initiate_check(p, cs)
    \/ \E p \in Procs : initiate_create(p)
    \/ \E c \in DOMAIN chunks : finalize_stocktake_chunk(c)
    \/ \E s \in DOMAIN stocktakes : finalize_stocktaking(s)

SpecRace == Init /\ [][NextRace]_vars

\* SpecConc: concurrent request handlers assigning and finishing the chunks
\* of a stock-taking.
NextConc ==
    \/ create_product
    \/ Len(stocktakes) < ConcStocktakes /\
          \E cs \in ChunkSizes : initiate_stocktaking(cs)
    \/ \E p \in Procs, u \in Users, s \in DOMAIN stocktakes : assign_get(p, u, s)
    \/ \E p \in Procs : assign_filter(p)
    \/ \E p \in Procs : assign_first(p)
    \/ \E p \in Procs : assign_save(p)
    \/ \E p \in Procs, c \in DOMAIN chunks : finalize_chunk_get(p, c)
    \/ \E p \in Procs : finalize_chunk_save(p)
    \/ \E s \in DOMAIN stocktakes : finalize_stocktaking(s)

SpecConc == Init /\ [][NextConc]_vars
\* ------------------------------------------------------------------ claims

C2_CorrectionsFinalized ==
    [][\A s \in DOMAIN stocktakes :
          (/\ ret'.op = "finalize_stocktaking" /\ ret'.status = "ok"
           /\ ret'.arg = s /\ ~stocktakes[s].locked) =>
          \A i \in ItemsOfStocktake(s) :
             /\ \E t \in DOMAIN trxs' :
                   /\ t \notin DOMAIN trxs
                   /\ trxs'[t].trx_type = "CORRECTION"
                   /\ trxs'[t].states[1].ref = ItemRef(i)
                   /\ trxs'[t].qty = items[i].qty - products[items[i].product].qty
                   /\ TrxStatus(trxs'[t]) = "FINALIZED"
             /\ products'[items[i].product].qty = items[i].qty]_vars

\* C3: at most one unlocked Stocktake exists in every reachable state, also
\* when two initiate_stocktaking calls run concurrently.
C3_AtMostOneUnlockedStocktake ==
    UnlockedStocktakeCount(stocktakes) <= 1

\* C4: two users calling assign_free_stocktake_chunk concurrently never
\* receive the same chunk: a chunk is returned to one user only, and it is
\* never owned by a user other than the one it was returned to.
C4_ChunkReturnedToOneUser ==
    /\ \A x, y \in returned : x[1] = y[1] => x[2] = y[2]
    /\ \A x \in returned : chunks[x[1]].owner \in {x[2], NoUser}

\* Two handlers serve two different users on the same stock-taking at once:
\* one is about to save its claim, the other is inside the call as well.
C4_Witness ==
    /\ pc["p1"] = "assign_save" /\ pc["p2"] = "assign_filter"
    /\ loc["p1"].user # loc["p2"].user
    /\ loc["p1"].stocktake = loc["p2"].stocktake
    /\ LockedByOther("p2", loc["p1"].chunk)
    /\ Cardinality(FreeChunks(loc["p1"].stocktake)) >= 2

\* C5: a repeated assign_free_stocktake_chunk of a user on a stock-taking,
\* with no finalize_stocktake_chunk of the returned chunk in between, returns
\* what the previous call returned and changes no chunk; the call returns None
\* only when the user owns no chunk and no chunk is free, and changes nothing.
C5_AssignIdempotent ==
    [][\A u \in Users, s \in 1..MaxStocktakes :
          (/\ ret'.op = "assign_free_stocktake_chunk"
           /\ ret'.user = u /\ ret'.arg = s) =>
          /\ lastAssign[u][s] # NoCall =>
                (/\ ret'.status = "ok" /\ ret'.val = lastAssign[u][s]
                 /\ chunks' = chunks)
          /\ (ret'.status = "ok" /\ ret'.val = 0) =>
                (/\ OwnedChunks(u, s) = {} /\ FreeChunks(s) = {}
                 /\ UNCHANGED db)
          /\ (ret'.status = "ok" /\ ret'.val # 0) =>
                (/\ ret'.val \in DOMAIN chunks
                 /\ chunks'[ret'.val].owner = u
                 /\ chunks'[ret'.val].stocktake = s)]_vars

\* A user's repeated call returned the chunk the user owns while another
\* chunk of the stock-taking is still free.
C5_Witness ==
    /\ ret.op = "assign_free_stocktake_chunk" /\ ret.again
    /\ ret.status = "ok" /\ ret.val # 0
    /\ chunks[ret.val].owner = ret.user
    /\ FreeChunks(ret.arg) # {}

\* C6: finalize_stocktaking on a locked stock-taking, or on one with an
\* unlocked chunk, fails and changes nothing.
C6_FinalizeStocktakingRejects ==
    [][\A s \in DOMAIN stocktakes :
          (/\ ret'.op = "finalize_stocktaking" /\ ret'.arg = s
           /\ (stocktakes[s].locked \/ \E c \in ChunksOf(s) : ~chunks[c].locked)) =>
          (ret'.status = "APIException" /\ UNCHANGED db)]_vars

\* finalize_stocktaking was rejected for an unlocked chunk whose item was
\* counted differently from the recorded quantity.
C6_Witness ==
    /\ ret.op = "finalize_stocktaking" /\ ret.status = "APIException"
    /\ ret.arg \in DOMAIN stocktakes /\ ~stocktakes[ret.arg].locked
    /\ \E i \in ItemsOfStocktake(ret.arg) :
          /\ ~chunks[items[i].chunk].locked
          /\ items[i].qty # products[items[i].product].qty
    /\ \A t \in DOMAIN trxs : trxs[t].trx_type # "CORRECTION"
\* C7: initiate_stocktaking fails, creating nothing, whenever an unlocked
\* Stocktake exists, and succeeds whenever every Stocktake is locked.
C7_InitiateRejectsWhenOpen ==
    [][ret'.op = "initiate_stocktaking" =>
          IF \E s \in DOMAIN stocktakes : ~stocktakes[s].locked
          THEN ret'.status = "APIException" /\ UNCHANGED db
          ELSE /\ ret'.status = "ok"
               /\ Len(stocktakes') = Len(stocktakes) + 1
               /\ ~stocktakes'[Len(stocktakes')].locked]_vars

\* A second stock-taking was initiated once the first was locked, and a
\* further call was then rejected.
C7_Witness ==
    /\ ret.op = "initiate_stocktaking" /\ ret.status = "APIException"
    /\ Len(stocktakes) = 2 /\ stocktakes[1].locked /\ ~stocktakes[2].locked
    /\ ChunksOf(2) # {}

\* C8: a successful initiate_stocktaking(chunk_size) over n products creates
\* ceil(n / chunk_size) chunks, all unlocked and unowned; every product is in
\* exactly one item of exactly one chunk, every chunk holds 1..chunk_size
\* items, and products are dealt into the chunks in category order.
C8_ChunksPartitionProducts ==
    [][(ret'.op = "initiate_stocktaking" /\ ret'.status = "ok") =>
          LET s == Len(stocktakes) + 1
              cs == ret'.arg
              n == Len(products)
              newChunks == {c \in DOMAIN chunks' : chunks'[c].stocktake = s}
              newItems == {i \in DOMAIN items' : items'[i].chunk \in newChunks}
              k == Cardinality(newChunks)
              cat(i) == products[items'[i].product].category
          IN /\ ret'.val = s
             /\ newChunks = (DOMAIN chunks') \ (DOMAIN chunks)
             /\ newItems = (DOMAIN items') \ (DOMAIN items)
             /\ k * cs >= n /\ (k - 1) * cs < n
             /\ \A c \in newChunks :
                   /\ ~chunks'[c].locked /\ chunks'[c].owner = NoUser
                   /\ LET size == Cardinality({i \in newItems : items'[i].chunk = c})
                      IN size >= 1 /\ size <= cs
             /\ \A p \in DOMAIN products :
                   Cardinality({i \in newItems : items'[i].product = p}) = 1
             /\ \A i, j \in newItems :
                   i < j =>
                     /\ items'[i].chunk <= items'[j].chunk
                     /\ (cat(i) # NoCategory /\ cat(j) # NoCategory) =>
                           cat(i) <= cat(j)]_vars

\* Three products whose categories are not in id order were dealt into two
\* chunks of size at most two.
C8_Witness ==
    /\ ret.op = "initiate_stocktaking" /\ ret.status = "ok" /\ ret.arg = 2
    /\ Len(products) = 3
    /\ products[1].category = 2 /\ products[3].category = 1
    /\ Cardinality(ChunksOf(ret.val)) = 2
    /\ Cardinality(ItemsOfStocktake(ret.val)) = 3

\* C9: a chunk becomes locked only from a state in which it has an owner.
C9_LocksOnlyWhileOwned ==
    [][\A c \in DOMAIN chunks :
          (~chunks[c].locked /\ chunks'[c].locked) =>
          chunks[c].owner # NoUser]_vars

\* C10: finalize_stocktake_chunk fails on a locked chunk and leaves it
\* unchanged; on an unlocked chunk it locks the chunk and clears its owner,
\* leaving every other chunk, the stock-takings, items and transactions alone.
C10_FinalizeChunkEffect ==
    [][\A c \in DOMAIN chunks :
          (ret'.op = "finalize_stocktake_chunk" /\ ret'.arg = c) =>
          IF chunks[c].locked
          THEN ret'.status = "APIException" /\ UNCHANGED db
          ELSE /\ ret'.status = "ok"
               /\ chunks'[c] = [stocktake |-> chunks[c].stocktake,
                                locked |-> TRUE, owner |-> NoUser]
               /\ \A d \in DOMAIN chunks : d # c => chunks'[d] = chunks[d]
               /\ DOMAIN chunks' = DOMAIN chunks
               /\ UNCHANGED <<products, trxs, stocktakes, items,
                              deliveries, deliveryItems>>]_vars

\* A chunk was finished while another chunk of the stock-taking stays owned
\* by the user it was assigned to.
C10_Witness ==
    /\ ret.op = "finalize_stocktake_chunk" /\ ret.status = "ok"
    /\ chunks[ret.arg].locked /\ chunks[ret.arg].owner = NoUser
    /\ \E d \in ChunksOf(chunks[ret.arg].stocktake), u \in Users :
          /\ d # ret.arg /\ chunks[d].owner = u /\ ~chunks[d].locked
          /\ lastAssign[u][chunks[d].stocktake] = d

\* C11: process_delivery on a delivery that is not valid (an item whose
\* supplier product is associated with no product) fails with the assertion
\* error and changes nothing: no transaction is created, the delivery stays
\* as it was (unlocked when it was unlocked).
C11_ProcessRejectsInvalid ==
    [][(/\ ret'.op = "process_delivery"
        /\ ret'.arg \in DOMAIN deliveries
        /\ ~DeliveryValid(ret'.arg))
       => (/\ ret'.status = "AssertionError"
           /\ trxs' = trxs
           /\ deliveries' = deliveries
           /\ products' = products
           /\ deliveryItems' = deliveryItems
           /\ supplierProducts' = supplierProducts)]_vars

C11_Witness ==
    /\ ret.op = "process_delivery"
    /\ ret.status = "AssertionError"
    /\ ~deliveries[ret.arg].locked
    /\ Cardinality(DeliveryItemsOf(ret.arg)) = 2
    /\ \E k \in DeliveryItemsOf(ret.arg) : ItemProduct(k) # 0
    /\ trxs # <<>>

\* C12: process_delivery on a valid, unlocked delivery with k items appends
\* exactly k transactions, one per delivery item, each of type INVENTORY, with
\* the item's quantity, on the product of the item's supplier product and with
\* the item as reference; afterwards the delivery is locked.
C12_ProcessCreatesInventory ==
    [][(/\ ret'.op = "process_delivery"
        /\ ret'.arg \in DOMAIN deliveries
        /\ DeliveryValid(ret'.arg)
        /\ ~deliveries[ret'.arg].locked)
       => LET its == DeliveryItemsOf(ret'.arg)
              new == (Len(trxs) + 1)..Len(trxs')
          IN /\ ret'.status = "ok"
             /\ Len(trxs') = Len(trxs) + Cardinality(its)
             /\ SubSeq(trxs', 1, Len(trxs)) = trxs
             /\ \A k \in its :
                   Cardinality({t \in new :
                       trxs'[t].states[1].ref = DeliveryItemRef(k)}) = 1
             /\ \A t \in new : \E k \in its :
                   /\ trxs'[t].states[1].ref = DeliveryItemRef(k)
                   /\ trxs'[t].trx_type = "INVENTORY"
                   /\ trxs'[t].qty = deliveryItems[k].qty
                   /\ trxs'[t].product = ItemProduct(k)
                   /\ trxs'[t].product \in DOMAIN products
             /\ deliveries'[ret'.arg].locked]_vars

C12_Witness ==
    /\ ret.op = "process_delivery"
    /\ ret.status = "ok"
    /\ deliveries[ret.arg].locked
    /\ Cardinality(DeliveryItemsOf(ret.arg)) = 2
    /\ Len(trxs) = 3
    /\ trxs[1].trx_type # "INVENTORY"
    /\ \E k \in DeliveryItemsOf(ret.arg) : deliveryItems[k].qty = 2 * (CHOOSE q \in DeliveryQtys : TRUE)

\* C15: a get_supplier_product(supplier, sku, refresh) call for an existing
\* supplier calls retrieve_product at most once, and exactly when refresh is
\* set or no row is cached for (supplier, sku); with refresh unset and a row
\* cached it returns that row and leaves the cache as it was; after a fetch
\* that found the product exactly one row is cached for (supplier, sku), it
\* is the row returned and it holds the fetched price, name and units, every
\* other row being as before.
C15_AtMostOneFetch ==
    [][(ret'.op = "get_supplier_product" /\ fetched'.supplier \in Suppliers)
       => LET s == fetched'.supplier
              sku == fetched'.sku
              cached == CachedRows(supplierProducts, s, sku)
              after == CachedRows(supplierProducts', s, sku)
          IN /\ Len(fetched'.calls) <= 1
             /\ fetched'.calls # <<>> <=> (fetched'.refresh \/ cached = {})
             /\ fetched'.calls # <<>> => fetched'.calls = <<sku>>
             /\ (~fetched'.refresh /\ cached # {})
                   => /\ ret'.status = "ok"
                      /\ ret'.val \in cached
                      /\ supplierProducts' = supplierProducts
             /\ (fetched'.calls # <<>> /\ fetched'.answer = NoData)
                   => ret'.val = 0 /\ supplierProducts' = supplierProducts
             /\ (fetched'.calls # <<>> /\ fetched'.answer # NoData)
                   => /\ ret'.status = "ok"
                      /\ after = {ret'.val}
                      /\ supplierProducts'[ret'.val].price = fetched'.answer.price
                      /\ supplierProducts'[ret'.val].name = fetched'.answer.name
                      /\ supplierProducts'[ret'.val].units = fetched'.answer.units
                      /\ \A i \in DOMAIN supplierProducts :
                            i # ret'.val => supplierProducts'[i] = supplierProducts[i]]_vars

\* A refresh found the product again with new data: the row cached before was
\* updated in place, next to a row of another supplier for the same SKU.
C15_Witness ==
    /\ ret.op = "get_supplier_product"
    /\ fetched.refresh
    /\ fetched.calls # <<>>
    /\ ret.val # 0
    /\ ret.val < Len(supplierProducts)
    /\ supplierProducts[ret.val].price = fetched.answer.price
    /\ \E i \in DOMAIN supplierProducts :
          /\ supplierProducts[i].sku = fetched.sku
          /\ supplierProducts[i].supplier # fetched.supplier
          /\ supplierProducts[i].price # fetched.answer.price

\* C13: order_from_supplier attempts candidate offerings only, each at most
\* once, in ascending order of ceil(qty / batch) * batch * unit price, ordering
\* ceil(qty / batch) batches, skipping no cheaper candidate; nothing is
\* attempted after a success, the offering returned is the one whose order
\* succeeded, and no candidate whose placement did not fail is cheaper.
C13_CheapestFirst ==
    [][ret'.op = "order_from_supplier"
       => LET att == ordered'.attempts
              q == ordered'.qty
              cands == Candidates(ordered'.product, ordered'.supplier)
              Batches(sp) == IF q % supplierProducts[sp].qty = 0
                             THEN q \div supplierProducts[sp].qty
                             ELSE q \div supplierProducts[sp].qty + 1
              Total(sp) == Batches(sp) * supplierProducts[sp].qty
                              * supplierProducts[sp].unit_price
              tried == {att[i].sp : i \in DOMAIN att}
              failed == {att[i].sp : i \in {j \in DOMAIN att : ~att[j].ok}}
          IN /\ tried \subseteq cands
             /\ \A i, j \in DOMAIN att : i < j =>
                   /\ att[i].sp # att[j].sp
                   /\ Total(att[i].sp) <= Total(att[j].sp)
                   /\ ~att[i].ok
             /\ \A i \in DOMAIN att : att[i].qty = Batches(att[i].sp)
             /\ \A c \in cands \ tried : \A t \in tried : Total(t) <= Total(c)
             /\ ret'.status = "ok" <=> (\E i \in DOMAIN att : att[i].ok)
             /\ ret'.status = "ok" =>
                   /\ att[Len(att)].ok /\ ret'.val = att[Len(att)].sp
                   /\ \A c \in cands \ failed : Total(ret'.val) <= Total(c)]_vars

\* The cheapest offering failed and the order fell through to the next one,
\* whose batch is larger, a dearer candidate staying untried.
C13_Witness ==
    /\ ret.op = "order_from_supplier"
    /\ ret.status = "ok"
    /\ Len(ordered.attempts) = 2
    /\ ~ordered.attempts[1].ok
    /\ ordered.attempts[1].qty > ordered.attempts[2].qty
    /\ ordered.attempts[2].qty > 1
    /\ Cardinality(Candidates(ordered.product, ordered.supplier)) = 3

\* C14: order_from_supplier fails with the ordering error (APIException)
\* whenever no candidate offering is ordered successfully, the candidate list
\* being empty or every placement having failed.
C14_FailsWithOrderingError ==
    [][(/\ ret'.op = "order_from_supplier"
        /\ \A i \in DOMAIN ordered'.attempts : ~ordered'.attempts[i].ok)
       => ret'.status = "APIException"]_vars

\* C16: predict_quantity returns None, fitting nothing and changing nothing,
\* when the product's quantity is <= target; else when the ledger holds no
\* finalized restock; else when it holds no finalized transaction created
\* after the last finalized restock; and only otherwise builds a data series.
C16_DegenerateCases ==
    [][(ret'.op = "predict_quantity" /\ ret'.status = "ok")
       => LET p == forecast'.product
              fin == {t \in DOMAIN trxs :
                         trxs[t].states[Len(trxs[t].states)].status = "FINALIZED"}
              restocks == {t \in fin : trxs[t].trx_type = "INVENTORY"}
              atTarget == products[p].qty <= forecast'.target
              noData == \A r \in restocks :
                           (\A t \in restocks : t <= r) => ~(\E t \in fin : t > r)
              branch == IF atTarget THEN "at_target"
                        ELSE IF restocks = {} THEN "never_restocked"
                        ELSE IF noData THEN "no_data"
                        ELSE "fitted"
          IN /\ forecast'.branch = branch
             /\ branch # "fitted" => forecast'.x = <<>> /\ forecast'.y = <<>>
             /\ branch = "fitted" => forecast'.x # <<>>
             /\ trxs' = trxs /\ products' = products]_vars

\* The product is above the target and was restocked, and nothing was
\* finalized after the restock, while a transaction is pending.
C16_Witness ==
    /\ ret.op = "predict_quantity"
    /\ forecast.branch = "no_data"
    /\ products[forecast.product].qty > forecast.target
    /\ \E t \in DOMAIN trxs : TrxStatus(trxs[t]) = "PENDING"

\* C17: in the data series of predict_quantity the synthetic zero-delta point
\* at today's offset is appended if and only if today has no data point, so
\* the offsets after the point at -1 are one per day with transactions, plus
\* today's when today has none, and never hold today's offset twice; the
\* cumulative series is the running sum of the deltas.
C17_SyntheticPointOnlyIfAbsent ==
    [][(ret'.op = "predict_quantity" /\ forecast'.branch = "fitted")
       => LET f == forecast'
              r == LastRestock(trxs)
              days == {trxs[t].date_created : t \in AfterRestock(trxs)}
              todayOffset == f.current_date - f.date_offset
              atToday == {i \in DOMAIN f.x : i > 1 /\ f.x[i] = todayOffset}
          IN /\ f.x[1] = 0 - 1 /\ f.deltas[1] = f.initial_qty
             /\ Cardinality(atToday) = 1
             /\ Len(f.x) = 1 + Cardinality(days \cup {f.current_date})
             /\ f.current_date \notin days =>
                   f.x[Len(f.x)] = todayOffset /\ f.deltas[Len(f.x)] = 0
             /\ Len(f.y) = Len(f.deltas)
             /\ \A i \in DOMAIN f.y :
                   f.y[i] = (IF i = 1 THEN 0 ELSE f.y[i - 1]) + f.deltas[i]]_vars

\* C18: in every reachable state a user owns at most one chunk of a given
\* stock-taking, also when the same user's calls run concurrently.
C18_AtMostOneChunkPerUser ==
    \A u \in Users : \A s \in DOMAIN stocktakes :
        Cardinality(OwnedChunks(u, s)) <= 1

\* C19: a locked chunk has no owner and never becomes unlocked again, also
\* when finalize_stocktake_chunk and assign_free_stocktake_chunk interleave on
\* the same chunk, each writing back the whole row it read.
C19_LockedStaysLocked ==
    [][/\ \A c \in DOMAIN chunks' :
             chunks'[c].locked => chunks'[c].owner = NoUser
       /\ \A c \in DOMAIN chunks : chunks[c].locked => chunks'[c].locked]_vars

\* A handler finishing a chunk read its row unowned, and before it writes the
\* row back another handler assigned the chunk to a user and committed.
C19_Witness ==
    \E p \in Procs :
        /\ pc[p] = "finalize_chunk_save"
        /\ loc[p].row.owner = NoUser
        /\ chunks[loc[p].chunk].owner \in Users
        /\ ~chunks[loc[p].chunk].locked
        /\ \E c \in DOMAIN chunks : chunks[c].locked

\* C20: the forecast of a product depends on its own transactions only: over
\* the ledger with the transactions of the other products taken out,
\* predict_quantity takes the same branch and builds the same series.
C20_OwnTransactionsOnly ==
    [][(ret'.op = "predict_quantity" /\ ret'.status = "ok")
       => LET p == forecast'.product
              IsOwn(t) == t.product = p
          IN forecast' = Predict(SelectSeq(trxs, IsOwn), p, products[p].qty,
                                 forecast'.target, forecast'.current_date)]_vars
====
